---- MODULE Spec2Model ----
(***************************************************************************)
(* Model of the transliteration engine of Dragons-of-Golarion:             *)
(*   src/transliterator/transliterator.py  (Transliterator, MedeivalRunes, *)
(*   CanadianSyllabics) and the tables of src/transliterator/DATA.py.      *)
(*                                                                         *)
(* A Python str is a sequence of one-character tokens.  Non-ASCII          *)
(* characters are written as ASCII tokens:                                 *)
(*   "NL" line feed, "CR" carriage return, " " space,                      *)
(*   "STRESS1" U+02C8, "STRESS2" U+02CC, "SYLL" U+0329, "LEN" U+02D0,      *)
(*   "IPAG" U+0261, "Q" U+0252, "@" U+0259, "R" U+0279, "I" U+026A,        *)
(*   "A" U+0251, "U" U+028A, "E" U+025B, "S" U+0283, "AE" U+00E6,          *)
(*   "QUOTE" ', "DQUOTE" ", "BACKSLASH" \ , "T" capital T; graphemes of a   *)
(*   target script are tokens such as "av_aa".                             *)
(*                                                                         *)
(* The older one-file script src/transliterator.py (clean_text) is         *)
(* modelled at the end, with "GLOT" for U+0294, and after it the scan of   *)
(* the chat log, pull_room of src/unnamed/part_000.                        *)
(***************************************************************************)
EXTENDS Integers, Sequences, FiniteSets, TLC

VARIABLES script, is_ipa, lines, pc, idx, units, text, text_old, todo,
          out, buffer, pos, joined, result, error,
          EVENTS, scripts, curscript, gobble, conversations, event, room_pc

\* the state of pull_room (src/unnamed/part_000)
room == <<EVENTS, scripts, curscript, gobble, conversations, event, room_pc>>

vars == <<script, is_ipa, lines, pc, idx, units, text, text_old, todo,
          out, buffer, pos, joined, result, error, room>>

\* pull_room is not running
RoomIdle ==
    /\ EVENTS = <<>>
    /\ scripts = <<>>
    /\ curscript = 0
    /\ gobble = FALSE
    /\ conversations = <<>>
    /\ event = 0
    /\ room_pc = "idle"

(***************************************************************************)
(* Bounds of the model.                                                    *)
(***************************************************************************)
MaxLen == 3
MaxUnits == 3
MaxPieces == 2
MaxEvents == 4

(***************************************************************************)
(* Python str helpers.                                                     *)
(***************************************************************************)
Whitespace == {" ", "NL", "CR"}

Chars(s) == {s[i] : i \in 1..Len(s)}

RECURSIVE Flatten_Chars(_)
Flatten_Chars(ps) ==
    IF ps = <<>> THEN <<>> ELSE Head(ps) \o Flatten_Chars(Tail(ps))

RECURSIVE ReplaceNonEmpty(_, _, _)
ReplaceNonEmpty(s, old, new) ==
    IF Len(s) < Len(old) THEN s
    ELSE IF SubSeq(s, 1, Len(old)) = old
         THEN new \o ReplaceNonEmpty(SubSeq(s, Len(old) + 1, Len(s)), old, new)
         ELSE <<Head(s)>> \o ReplaceNonEmpty(Tail(s), old, new)

RECURSIVE Interleave(_, _)
Interleave(s, new) ==
    IF s = <<>> THEN new ELSE new \o <<Head(s)>> \o Interleave(Tail(s), new)

\* every character of old replaced on its own, as str.translate would
Replace_AnyChar(s, old, new) ==
    IF s = <<>> THEN <<>>
    ELSE Flatten_Chars([i \in 1..Len(s) |->
             IF s[i] \in Chars(old) THEN new ELSE <<s[i]>>])

\* str.replace(old, new): every non-overlapping occurrence, left to right.
Replace(s, old, new) ==
    IF old = <<>> THEN Interleave(s, new) ELSE ReplaceNonEmpty(s, old, new)

RECURSIVE LStrip(_)
LStrip(s) ==
    IF s # <<>> /\ Head(s) \in Whitespace THEN LStrip(Tail(s)) ELSE s

RECURSIVE RStrip(_)
RStrip(s) ==
    IF s # <<>> /\ s[Len(s)] \in Whitespace
    THEN RStrip(SubSeq(s, 1, Len(s) - 1)) ELSE s

\* str.strip()
Strip(s) == RStrip(LStrip(s))

RECURSIVE Join(_, _)
\* sep.join(list)
Join(list, sep) ==
    IF list = <<>> THEN <<>>
    ELSE IF Len(list) = 1 THEN list[1]
    ELSE list[1] \o sep \o Join(Tail(list), sep)

RECURSIVE CountOcc(_, _)
\* str.count(sub) for a non-empty sub: non-overlapping occurrences.
CountOcc(s, sub) ==
    IF Len(s) < Len(sub) THEN 0
    ELSE IF SubSeq(s, 1, Len(sub)) = sub
         THEN 1 + CountOcc(SubSeq(s, Len(sub) + 1, Len(s)), sub)
         ELSE CountOcc(Tail(s), sub)

(***************************************************************************)
(* Transliterator.preprocess_text                                          *)
(***************************************************************************)
\* the rule as the older preprocess_text wrote it: a trailing line feed is
\* part of the pattern
DotRule_TrailingNL == << <<"NL", " ", "d", "STRESS1", "Q", "t", "NL">>, <<".">> >>

\* line 81: the spoken "dot"
DotRule == << <<"NL", " ", "d", "STRESS1", "Q", "t">>, <<".">> >>

\* The (pattern, replacement) pairs of lines 81-91, in program order.
PunctuationRules == <<
    DotRule,
    << <<"NL", " ", "p", "STRESS1", "i", "@", "R", "I", "@", "d">>, <<".">> >>,
    << <<"NL", " ", "k", "STRESS1", "A", "LEN", "m", "@">>, <<",">> >>,
    << <<"NL", " ", "k", "STRESS1", "o", "U", "l", "@", "n">>, <<":">> >>,
    << <<"NL", " ", "s", "STRESS2", "E", "m", "I", "k", "STRESS1", "@", "U",
         "l", "@", "n">>, <<";">> >>,
    << <<"NL", " ", "s", "STRESS2", "E", "m", "I", "k", "STRESS1", "o", "U",
         "l", "@", "n">>, <<";">> >>,
    << <<"NL", " ", "k", "w", "STRESS1", "E", "s", "t", "S", "@", "n">>,
       <<"?">> >>,
    << <<"NL", " ", "E", "k", "s", "k", "l", "@", "m", "STRESS1", "e", "I",
         "S", "@", "n">>, <<"!">> >>,
    << <<"NL", " ", "k", "w", "STRESS1", "o", "U", "t">>, <<"QUOTE">> >>,
    << <<"NL", " ", "k", "w", "STRESS1", "o", "U", "t", "s">>, <<"DQUOTE">> >>,
    << <<"NL", " ", "b", "STRESS1", "AE", "k", "s", "l", "AE", "S">>,
       <<"BACKSLASH">> >> >>

\* The pairs of lines 93-96 alone: the line breaks are left in the text.
SymbolRules_KeepBreaks == <<
    << <<"STRESS2">>, <<>> >>,
    << <<"STRESS1">>, <<>> >>,
    << <<"SYLL">>, <<>> >>,
    << <<"IPAG">>, <<"g">> >> >>

\* The pairs with the carriage return turned into a line feed at the end,
\* after the line feeds were deleted.
SymbolRules_BreaksLast == <<
    << <<"STRESS2">>, <<>> >>,
    << <<"STRESS1">>, <<>> >>,
    << <<"SYLL">>, <<>> >>,
    << <<"IPAG">>, <<"g">> >>,
    << <<"NL">>, <<>> >>,
    << <<"CR">>, <<"NL">> >> >>

\* The (pattern, replacement) pairs of lines 93-100, in program order.
SymbolRules == <<
    << <<"STRESS2">>, <<>> >>,
    << <<"STRESS1">>, <<>> >>,
    << <<"SYLL">>, <<>> >>,
    << <<"IPAG">>, <<"g">> >>,
    << <<"CR">>, <<>> >>,
    << <<"NL">>, <<>> >> >>

RECURSIVE ApplyRules(_, _)
\* text = text.replace(pattern, replacement), one statement after another
ApplyRules(s, rules) ==
    IF rules = <<>> THEN s
    ELSE ApplyRules(Replace(s, Head(rules)[1], Head(rules)[2]), Tail(rules))

preprocess_text(s) == ApplyRules(ApplyRules(s, PunctuationRules), SymbolRules)

(***************************************************************************)
(* Python dict (insertion-ordered) and sorted(..., key=len, reverse=True)  *)
(***************************************************************************)
Keys(d) == [i \in 1..Len(d) |-> d[i][1]]

HasKey(d, k) == \E i \in 1..Len(d) : d[i][1] = k

Get(d, k) == d[CHOOSE i \in 1..Len(d) : d[i][1] = k][2]

RECURSIVE MaxKeyLen(_)
\* max(len(i) for i in keys); 0 stands for the empty list
MaxKeyLen(ks) ==
    IF ks = <<>> THEN 0
    ELSE LET m == MaxKeyLen(Tail(ks))
         IN  IF Len(Head(ks)) > m THEN Len(Head(ks)) ELSE m

RECURSIVE LenBuckets(_, _)
LenBuckets(ks, n) ==
    IF n < 0 THEN <<>>
    ELSE SelectSeq(ks, LAMBDA k : Len(k) = n) \o LenBuckets(ks, n - 1)

\* the keys left in the order of the table
SortedByLenDesc_Unsorted(ks) == ks

\* sorted(ks, key=len, reverse=True): stable, longest first
SortedByLenDesc(ks) == LenBuckets(ks, MaxKeyLen(ks))

(***************************************************************************)
(* Symbol tables: the part of each table of DATA.py that is over the       *)
(* model's alphabet, in the table's own order, and the example table of    *)
(* the syllabic strategy.                                                  *)
(***************************************************************************)
AVESTAN == [
    cls      |-> "Transliterator",
    ipa      |-> << << <<"a", "LEN">>, <<"av_aa">> >>,
                    << <<"a">>, <<"av_a">> >>,
                    << <<"t">>, <<"av_t">> >> >>,
    cleaner  |-> << << <<"A">>, <<"a">> >> >>,
    keepable |-> {"QUOTE", "DQUOTE", "av_sep", " "} ]

ELDER_FUTHARK == [
    cls      |-> "Transliterator",
    ipa      |-> << << <<"f">>, <<"ef_f">> >>,
                    << <<"a">>, <<"ef_a">> >> >>,
    cleaner  |-> << << <<"LEN">>, <<>> >>,
                    << <<"v">>, <<"f">> >> >>,
    keepable |-> {";", "!", "?", ":", ".", ","} ]

MEDEIVAL_RUNES == [
    cls      |-> "MedeivalRunes",
    ipa      |-> << << <<"h">>, <<"mr_h">> >>,
                    << <<"i">>, <<"mr_i">> >>,
                    << <<"t">>, <<"mr_t">> >>,
                    << <<"t", "h">>, <<"mr_th">> >> >>,
    cleaner  |-> << << <<"j">>, <<"i">> >> >>,
    keepable |-> {";", "!", "?", ":", ".", ",", "-"} ]

SYLLABICS == [
    cls      |-> "CanadianSyllabics",
    ipa      |-> << << <<"a">>, <<"X">> >>,
                    << <<"a", "b">>, <<"Y">> >> >>,
    cleaner  |-> << >>,
    keepable |-> {} ]

\* A table as a caller of Transliterator(ipa_dict, cleaner_dict, keepable_set)
\* may pass it: the grapheme of one key is itself a key.
RESPELLING == [
    cls      |-> "Transliterator",
    ipa      |-> << << <<"c">>, <<"k">> >>,
                    << <<"k">>, <<"q">> >> >>,
    cleaner  |-> << >>,
    keepable |-> {} ]

Scripts == {"avestan", "elder_futhark", "medeival_runes", "syllabics"}

Profile(s) ==
    CASE s = "avestan" -> AVESTAN
      [] s = "elder_futhark" -> ELDER_FUTHARK
      [] s = "medeival_runes" -> MEDEIVAL_RUNES
      [] s = "syllabics" -> SYLLABICS
      [] s = "respelling" -> RESPELLING

\* The characters the inputs of a script are drawn from.
Alphabet(s) ==
    CASE s = "avestan" -> {"a", "LEN", "A", " "}
      [] s = "elder_futhark" -> {"a", "v", "c", " ", "."}
      [] s = "medeival_runes" -> {"t", "h", "T", "1"}
      [] s = "syllabics" -> {"a", "b", "c"}
      [] s = "respelling" -> {"c", "k"}

\* str.lower() on the model's alphabet
Lower(s) == [i \in 1..Len(s) |-> IF s[i] = "T" THEN "t" ELSE s[i]]

(***************************************************************************)
(* Transliterator.convert_text and CanadianSyllabics.convert_text          *)
(***************************************************************************)
StripAll(ks) == [i \in 1..Len(ks) |-> Strip(ks[i])]

\* sorted(self.cleaner, key=len, reverse=True)
CleanerOrder(p) == SortedByLenDesc(Keys(p.cleaner))

keys_1(ipa) ==
    SortedByLenDesc(StripAll(SelectSeq(Keys(ipa), LAMBDA k : "LEN" \in Chars(k))))

keys_2(ipa) ==
    SortedByLenDesc(StripAll(SelectSeq(Keys(ipa), LAMBDA k : "LEN" \notin Chars(k))))

\* the two loops in the other order: short keys before the long vowels
CascadeKeys_ShortFirst(ipa) == keys_2(ipa) \o keys_1(ipa)

\* the order in which the two loops of lines 128-131 visit the keys
CascadeKeys(ipa) == keys_1(ipa) \o keys_2(ipa)

\* the test on the keepable set the wrong way round
CoverageErrs_Inverted(old, new, keepable) ==
    {c \in Chars(old) : c \notin Whitespace /\ c \in Chars(new) /\ c \in keepable}

\* the errs taken from the characters of the result alone
CoverageErrs_FromResult(old, new, keepable) ==
    {c \in Chars(new) : c \notin Whitespace /\ c \notin keepable}

\* the errs without the exemption of the keepable set
CoverageErrs_NoKeepable(old, new, keepable) ==
    {c \in Chars(old) : c \notin Whitespace /\ c \in Chars(new)}

\* errs of lines 133-139
CoverageErrs(old, new, keepable) ==
    {c \in Chars(old) : c \notin Whitespace /\ c \in Chars(new) /\ c \notin keepable}

MAXLEN(ipa) == MaxKeyLen(Keys(ipa))

NoError == [type |-> "None", errs |-> {}, detail |-> <<>>]

\* The iteration with the character that ended a key kept in the buffer.
ScanBody_KeepLookahead(ipa, o, b, c) ==
    LET b1 == Append(b, c)
        front == SubSeq(b1, 1, Len(b1) - 1)
    IN  IF ~HasKey(ipa, b1) /\ ~HasKey(ipa, front)
        THEN [out |-> o, buffer |-> b1,
              error |-> [type |-> "KeyError", errs |-> {}, detail |-> front]]
        ELSE [out    |-> IF HasKey(ipa, b1) THEN o ELSE o \o Get(ipa, front),
              buffer |-> IF HasKey(ipa, b1) THEN b1 ELSE <<c>>,
              error  |-> NoError]

\* One iteration of the loop of lines 187-193 on character c.
ScanBody(ipa, o, b, c) ==
    LET b1 == Append(b, c)
        front == SubSeq(b1, 1, Len(b1) - 1)
    IN  IF ~HasKey(ipa, b1) /\ ~HasKey(ipa, front)
        THEN [out |-> o, buffer |-> b1,
              error |-> [type |-> "KeyError", errs |-> {}, detail |-> front]]
        ELSE LET o2 == IF HasKey(ipa, b1) THEN o ELSE o \o Get(ipa, front)
                 b2 == IF HasKey(ipa, b1) THEN b1 ELSE <<>>
             IN  IF Len(b2) > MAXLEN(ipa)
                 THEN [out |-> o2, buffer |-> b2,
                       error |-> [type |-> "ValueError", errs |-> {},
                                  detail |-> b2]]
                 ELSE [out |-> o2, buffer |-> b2, error |-> NoError]

(***************************************************************************)
(* The same functions, call by call.                                       *)
(***************************************************************************)
RECURSIVE ApplyKeys(_, _, _)
\* for i in ks: s = s.replace(i, d[i])
ApplyKeys(s, ks, d) ==
    IF ks = <<>> THEN s
    ELSE ApplyKeys(Replace(s, Head(ks), Get(d, Head(ks))), Tail(ks), d)

\* the cleaner loop of convert_text
Cleaned(p, s) == ApplyKeys(s, CleanerOrder(p), p.cleaner)

RECURSIVE ScanFrom(_, _, _, _)
\* the loop of lines 187-193 over the characters of s
ScanFrom(ipa, s, o, b) ==
    IF s = <<>> THEN [out |-> o, buffer |-> b, error |-> NoError]
    ELSE LET r == ScanBody(ipa, o, b, Head(s))
         IN  IF r.error.type # "None" THEN r
             ELSE ScanFrom(ipa, Tail(s), r.out, r.buffer)

\* convert_text(s) of the profile's class: whether it returns, and what
convert_text(p, s) ==
    LET c == Cleaned(p, s)
    IN  IF p.cls = "CanadianSyllabics"
        THEN LET r == ScanFrom(p.ipa, c, <<>>, <<>>)
             IN  [ok |-> r.error.type = "None", value |-> r.out]
        ELSE LET t == ApplyKeys(c, CascadeKeys(p.ipa), p.ipa)
             IN  [ok |-> CoverageErrs(c, t, p.keepable) = {}, value |-> t]

\* what transliterate does to one unit
UnitOutcome(p, u) ==
    convert_text(p, IF p.cls = "MedeivalRunes" THEN u ELSE preprocess_text(u))

(***************************************************************************)
(* Inputs                                                                  *)
(***************************************************************************)
Strings(A, n) == UNION {[1..k -> A] : k \in 0..n}

\* the ways to cut a string of length n into u consecutive (maybe empty) parts
Cuts(u, n) ==
    {c \in [0..u -> 0..n] :
        /\ c[0] = 0
        /\ c[u] = n
        /\ \A i \in 1..u : c[i - 1] <= c[i]}

SplitAt(str, u, c) == [i \in 1..u |-> SubSeq(str, c[i - 1] + 1, c[i])]

\* 1..MaxUnits lines of at most MaxLen characters in all
Batches(A) ==
    UNION {UNION {{SplitAt(str, u, c) : c \in Cuts(u, Len(str))}
                  : u \in 1..MaxUnits}
           : str \in Strings(A, MaxLen)}

(***************************************************************************)
(* The state machine of transliterate()                                    *)
(***************************************************************************)
Init ==
    /\ script \in Scripts
    /\ is_ipa \in BOOLEAN
    /\ lines \in Batches(Alphabet(script))
    /\ pc = "transliterate"
    /\ idx = 0
    /\ units = <<>>
    /\ text = <<>>
    /\ text_old = <<>>
    /\ todo = <<>>
    /\ out = <<>>
    /\ buffer = <<>>
    /\ pos = 0
    /\ joined = <<>>
    /\ result = <<>>
    /\ error = NoError
    /\ RoomIdle

\* The provider's first transcription handed to convert_text as it is.
Espeak_SkipNormalizer ==
    /\ pc = "transliterate"
    /\ Profile(script).cls # "MedeivalRunes"
    /\ ~is_ipa
    /\ units' = [i \in 1..Len(lines) |-> Strip(lines[i])]
    /\ idx' = 1
    /\ text' = IF lines = <<>> THEN <<>> ELSE Strip(lines[1])
    /\ todo' = CleanerOrder(Profile(script))
    /\ pc' = "clean"
    /\ UNCHANGED <<script, is_ipa, lines, text_old, out, buffer, pos, joined,
                   result, error>>
    /\ UNCHANGED room

\* Transliterator.transliterate, not is_ipa: espeak() returns one stripped
\* transcription per line; the maps are lazy and are driven by join.
Espeak ==
    /\ pc = "transliterate"
    /\ Profile(script).cls # "MedeivalRunes"
    /\ ~is_ipa
    /\ units' = [i \in 1..Len(lines) |-> Strip(lines[i])]
    /\ idx' = 1
    /\ pc' = "map"
    /\ UNCHANGED <<script, is_ipa, lines, text, text_old, todo, out, buffer,
                   pos, joined, result, error>>
    /\ UNCHANGED room

\* Transliterator.transliterate, is_ipa: the whole text is one unit.
TakeIpa ==
    /\ pc = "transliterate"
    /\ Profile(script).cls # "MedeivalRunes"
    /\ is_ipa
    /\ units' = <<Join(lines, <<"NL">>)>>
    /\ idx' = 1
    /\ pc' = "map"
    /\ UNCHANGED <<script, is_ipa, lines, text, text_old, todo, out, buffer,
                   pos, joined, result, error>>
    /\ UNCHANGED room

\* MedeivalRunes.transliterate: convert_text(text.lower())
RunesTransliterate ==
    /\ pc = "transliterate"
    /\ Profile(script).cls = "MedeivalRunes"
    /\ units' = <<Lower(Join(lines, <<"NL">>))>>
    /\ idx' = 1
    /\ text' = units'[1]
    /\ todo' = CleanerOrder(Profile(script))
    /\ pc' = "clean"
    /\ UNCHANGED <<script, is_ipa, lines, text_old, out, buffer, pos, joined,
                   result, error>>
    /\ UNCHANGED room

\* preprocess_text on the next unit, then entry of convert_text
Preprocess ==
    /\ pc = "map"
    /\ idx <= Len(units)
    /\ text' = preprocess_text(units[idx])
    /\ todo' = CleanerOrder(Profile(script))
    /\ pc' = "clean"
    /\ UNCHANGED <<script, is_ipa, lines, idx, units, text_old, out, buffer,
                   pos, joined, result, error>>
    /\ UNCHANGED room

\* one iteration of the cleaner loop (lines 112-113, 181-182)
CleanStep ==
    /\ pc = "clean"
    /\ todo # <<>>
    /\ text' = Replace(text, Head(todo), Get(Profile(script).cleaner, Head(todo)))
    /\ todo' = Tail(todo)
    /\ UNCHANGED <<script, is_ipa, lines, pc, idx, units, text_old, out,
                   buffer, pos, joined, result, error>>
    /\ UNCHANGED room

\* lines 116-127
SortKeys ==
    /\ pc = "clean"
    /\ todo = <<>>
    /\ Profile(script).cls # "CanadianSyllabics"
    /\ text_old' = text
    /\ todo' = CascadeKeys(Profile(script).ipa)
    /\ pc' = "replace"
    /\ UNCHANGED <<script, is_ipa, lines, idx, units, text, out, buffer, pos,
                   joined, result, error>>
    /\ UNCHANGED room

\* one iteration of the loops of lines 128-131
ReplaceStep ==
    /\ pc = "replace"
    /\ todo # <<>>
    /\ IF HasKey(Profile(script).ipa, Head(todo))
       THEN /\ text' = Replace(text, Head(todo),
                               Get(Profile(script).ipa, Head(todo)))
            /\ todo' = Tail(todo)
            /\ UNCHANGED <<pc, error>>
       ELSE /\ error' = [type |-> "KeyError", errs |-> {}, detail |-> Head(todo)]
            /\ pc' = "raised"
            /\ UNCHANGED <<text, todo>>
    /\ UNCHANGED <<script, is_ipa, lines, idx, units, text_old, out, buffer,
                   pos, joined, result>>
    /\ UNCHANGED room

\* line 143 without the assertion of line 141
CheckCoverage_NoAssert ==
    /\ pc = "replace"
    /\ todo = <<>>
    /\ joined' = Append(joined, text)
    /\ idx' = idx + 1
    /\ pc' = "map"
    /\ UNCHANGED <<script, is_ipa, lines, units, text, text_old, todo, out,
                   buffer, pos, result, error>>
    /\ UNCHANGED room

\* lines 133-143: the coverage assertion, then return text
CheckCoverage ==
    /\ pc = "replace"
    /\ todo = <<>>
    /\ LET errs == CoverageErrs(text_old, text, Profile(script).keepable)
       IN  IF errs = {}
           THEN /\ joined' = Append(joined, text)
                /\ idx' = idx + 1
                /\ pc' = "map"
                /\ UNCHANGED error
           ELSE /\ error' = [type |-> "AssertionError", errs |-> errs,
                             detail |-> <<>>]
                /\ pc' = "raised"
                /\ UNCHANGED <<joined, idx>>
    /\ UNCHANGED <<script, is_ipa, lines, units, text, text_old, todo, out,
                   buffer, pos, result>>
    /\ UNCHANGED room

\* lines 184-186
ScanBegin ==
    /\ pc = "clean"
    /\ todo = <<>>
    /\ Profile(script).cls = "CanadianSyllabics"
    /\ out' = <<>>
    /\ buffer' = <<>>
    /\ pos' = 1
    /\ pc' = "scan"
    /\ UNCHANGED <<script, is_ipa, lines, idx, units, text, text_old, todo,
                   joined, result, error>>
    /\ UNCHANGED room

\* lines 187-193
ScanStep ==
    /\ pc = "scan"
    /\ pos <= Len(text)
    /\ LET r == ScanBody(Profile(script).ipa, out, buffer, text[pos])
       IN  /\ out' = r.out
           /\ buffer' = r.buffer
           /\ error' = r.error
           /\ IF r.error.type = "None"
              THEN pos' = pos + 1 /\ pc' = pc
              ELSE pos' = pos /\ pc' = "raised"
    /\ UNCHANGED <<script, is_ipa, lines, idx, units, text, text_old, todo,
                   joined, result>>
    /\ UNCHANGED room

\* line 195
ScanReturn ==
    /\ pc = "scan"
    /\ pos > Len(text)
    /\ joined' = Append(joined, out)
    /\ idx' = idx + 1
    /\ pc' = "map"
    /\ UNCHANGED <<script, is_ipa, lines, units, text, text_old, todo, out,
                   buffer, pos, result, error>>
    /\ UNCHANGED room

\* "\n".join(text) has consumed every unit; return
JoinResult ==
    /\ pc = "map"
    /\ idx > Len(units)
    /\ result' = <<Join(joined, <<"NL">>)>>
    /\ pc' = "done"
    /\ UNCHANGED <<script, is_ipa, lines, idx, units, text, text_old, todo,
                   out, buffer, pos, joined, error>>
    /\ UNCHANGED room

Next ==
    \/ Espeak
    \/ TakeIpa
    \/ RunesTransliterate
    \/ Preprocess
    \/ CleanStep
    \/ SortKeys
    \/ ReplaceStep
    \/ CheckCoverage
    \/ ScanBegin
    \/ ScanStep
    \/ ScanReturn
    \/ JoinResult

Spec == Init /\ [][Next]_vars

(***************************************************************************)
(* preprocess_text on its own: the texts are made of the spelled-out       *)
(* punctuation phrases, the bare word "dot" and single characters.         *)
(***************************************************************************)
DotWord == <<"d", "STRESS1", "Q", "t">>

\* the delimited forms of the spoken "dot" and "period"
DotPhrase == <<"NL", " ">> \o DotWord

PeriodPhrase == <<"NL", " ", "p", "STRESS1", "i", "@", "R", "I", "@", "d">>

NormPieces ==
    {PunctuationRules[i][1] : i \in 1..Len(PunctuationRules)}
    \cup {DotWord, DotPhrase, PeriodPhrase}
    \cup {<<"NL", " ", "d", "STRESS2", "STRESS1", "Q", "t">>}
    \cup {<<c>> : c \in {"NL", " ", "CR", "STRESS1", "STRESS2", "SYLL",
                         "IPAG", "s", "a", "."}}

RECURSIVE Flatten(_)
Flatten(ps) == IF ps = <<>> THEN <<>> ELSE Head(ps) \o Flatten(Tail(ps))

NormTexts == {Flatten(ps) : ps \in Strings(NormPieces, MaxPieces)}

\* the state in which transliterate(text, is_ipa=True) calls preprocess_text
InitNorm ==
    /\ script \in Scripts
    /\ is_ipa = TRUE
    /\ \E t \in NormTexts : lines = <<t>> /\ units = <<t>>
    /\ pc = "map"
    /\ idx = 1
    /\ text = <<>>
    /\ text_old = <<>>
    /\ todo = <<>>
    /\ out = <<>>
    /\ buffer = <<>>
    /\ pos = 0
    /\ joined = <<>>
    /\ result = <<>>
    /\ error = NoError
    /\ RoomIdle

NextNorm == Preprocess

SpecNorm == InitNorm /\ [][NextNorm]_vars

(***************************************************************************)
(* Where a run stands                                                      *)
(***************************************************************************)
Buffered == Profile(script).cls = "CanadianSyllabics"

\* convert_text has just returned: text/out and text_old are those of the call
Returned == pc \in {"map", "done"} /\ joined # <<>>

\* both replacement loops of the Cascading strategy have run to their end
Replaced ==
    /\ ~Buffered
    /\ \/ pc = "replace" /\ todo = <<>>
       \/ Returned
       \/ pc = "raised" /\ error.type = "AssertionError"

\* the characters of the cleaned string that are still in the result
Leftover == Chars(text_old) \cap Chars(text)

(***************************************************************************)
(* C1  Cascading coverage                                                  *)
(***************************************************************************)
\* C1 as stated: a result is returned only if every character of the result
\* that also occurred in the cleaned string is in the keepable set, and a
\* coverage error is raised only for such a leftover character.
C1_CoverageAsStated ==
    (~Buffered /\ Returned) => \A c \in Leftover : c \in Profile(script).keepable

\* C1 amended: a result is returned only if every character of the result
\* that also occurred in the cleaned string is in the keepable set or is
\* whitespace; the coverage error is raised exactly for the leftover
\* characters that are neither, and it names them.
C1_Coverage ==
    /\ (~Buffered /\ Returned) =>
          \A c \in Leftover : c \in Profile(script).keepable \cup Whitespace
    /\ (~Buffered /\ pc = "raised" /\ error.type = "AssertionError") =>
          /\ error.errs = Leftover \ (Profile(script).keepable \cup Whitespace)
          /\ error.errs # {}

\* a Cascading call rewrote a phoneme and returned a text that kept a keepable
\* character and a whitespace character outside the keepable set
C1_Witness ==
    /\ ~Buffered
    /\ Returned
    /\ Leftover \cap Profile(script).keepable # {}
    /\ (Leftover \cap Whitespace) \ Profile(script).keepable # {}
    /\ text # text_old

(***************************************************************************)
(* C2 - C5  Buffered strategy                                              *)
(***************************************************************************)
\* the scan of the current unit is over: it returned or it raised
ScanEnded == Buffered /\ (Returned \/ pc = "raised")

\* the length of the longest key that is a prefix of s, 0 if there is none
LongestKey(ipa, s) ==
    LET ns == {n \in 1..Len(s) : HasKey(ipa, SubSeq(s, 1, n))}
    IN  IF ns = {} THEN 0 ELSE CHOOSE n \in ns : \A m \in ns : m <= n

RECURSIVE Munchable(_, _)
\* s is a concatenation of keys under longest-prefix segmentation
Munchable(ipa, s) ==
    \/ s = <<>>
    \/ /\ LongestKey(ipa, s) > 0
       /\ Munchable(ipa, SubSeq(s, LongestKey(ipa, s) + 1, Len(s)))

RECURSIVE Munch(_, _)
\* the graphemes of the longest-prefix segmentation of s
Munch(ipa, s) ==
    IF s = <<>> THEN <<>>
    ELSE LET n == LongestKey(ipa, s)
         IN  Get(ipa, SubSeq(s, 1, n)) \o Munch(ipa, SubSeq(s, n + 1, Len(s)))

\* C2: the Buffered strategy emits, left to right, the grapheme of the longest
\* key that is a prefix of the remaining cleaned input ("ab" gives "Y").
C2_MaximalMunch ==
    (Buffered /\ Returned /\ Munchable(Profile(script).ipa, text)) =>
        out = Munch(Profile(script).ipa, text)

\* the key of a one-character grapheme
KeyOf(ipa, g) == ipa[CHOOSE i \in 1..Len(ipa) : ipa[i][2] = <<g>>][1]

\* C3: whenever the Buffered strategy returns, the keys of the emitted
\* graphemes, concatenated in emission order, are the whole cleaned input.
C3_NoSymbolLost ==
    (Buffered /\ Returned) =>
        Flatten([i \in 1..Len(out) |-> KeyOf(Profile(script).ipa, out[i])]) = text

\* the characters that occur in some key
KeyChars(ipa) == UNION {Chars(ipa[i][1]) : i \in 1..Len(ipa)}

\* C4: a cleaned input that is a cluster one character longer than the longest
\* key and shares nothing with any key fails with the buffer-overflow error,
\* which reports the accumulated buffer.
C4_OverflowBoundary ==
    (/\ ScanEnded
     /\ Len(text) = MAXLEN(Profile(script).ipa) + 1
     /\ Chars(text) \cap KeyChars(Profile(script).ipa) = {})
    => /\ pc = "raised"
       /\ error.type = "ValueError"
       /\ error.detail = text

\* C5: a cleaned input with a phoneme that has no defined grapheme fails with
\* a lookup error whose detail is the unmatched phoneme cluster.
C5_LookupFailure ==
    (ScanEnded /\ Chars(text) \ KeyChars(Profile(script).ipa) # {})
    => /\ pc = "raised"
       /\ error.type = "KeyError"
       /\ error.detail # <<>>
       /\ Chars(error.detail) \ KeyChars(Profile(script).ipa) # {}

(***************************************************************************)
(* C6  Long-vowel precedence                                               *)
(***************************************************************************)
LongA == <<"a", "LEN">>

ShortA == <<"a">>

HasBothA == HasKey(Profile(script).ipa, LongA) /\ HasKey(Profile(script).ipa, ShortA)

\* C6: with keys for the long and the short vowel, every occurrence of the
\* long vowel in the cleaned input has become the long vowel's grapheme, and
\* the result nowhere has the short vowel's grapheme before a length marker.
C6_LongVowelPrecedence ==
    (Replaced /\ HasBothA) =>
        /\ CountOcc(text, Get(Profile(script).ipa, LongA)) = CountOcc(text_old, LongA)
        /\ CountOcc(text, Get(Profile(script).ipa, ShortA) \o <<"LEN">>) = 0

\* a call has returned the rewriting of an input with a long and a short vowel
C6_Witness ==
    /\ ~Buffered
    /\ Returned
    /\ HasBothA
    /\ CountOcc(text_old, LongA) = 1
    /\ CountOcc(text, Get(Profile(script).ipa, ShortA)) = 1

(***************************************************************************)
(* C7, C8  Normalizer                                                      *)
(***************************************************************************)
\* preprocess_text has run on units[1]
Normalized == pc = "clean" /\ Len(units) = 1

Dots(s) == CountOcc(s, <<".">>)

\* C7 as stated: the transcription of the spoken "dot" is turned into ".".
C7_DotAsStated ==
    (Normalized /\ units[1] = DotWord) => text = <<".">>

\* C7 amended: preprocess_text turns the spoken "dot" into "." where it stands
\* in its delimited form, line feed and space before it, whatever the
\* profile: the result has one "." for each "." of the input and each
\* delimited "dot" or "period"; the bare word only loses its stress mark.
C7_DelimitedDot ==
    Normalized =>
        /\ Dots(text) = Dots(units[1]) + CountOcc(units[1], DotPhrase)
                          + CountOcc(units[1], PeriodPhrase)
        /\ units[1] = DotPhrase => text = <<".">>
        /\ units[1] = DotWord => text = <<"d", "Q", "t">>

\* a text with a delimited "dot" after another piece has been normalized
C7_Witness ==
    /\ Normalized
    /\ CountOcc(units[1], DotPhrase) = 1
    /\ Len(units[1]) > Len(DotPhrase)
    /\ Dots(text) = 1

\* C8: every recognized phrase, in its delimited form, becomes its own
\* punctuation character and nothing of it is left.
C8_EveryPhrase ==
    Normalized =>
        \A i \in 1..Len(PunctuationRules) :
            units[1] = PunctuationRules[i][1] => text = PunctuationRules[i][2]

(***************************************************************************)
(* C9, C10  Failures                                                       *)
(***************************************************************************)
\* C9: in a batch where one unit has an unmapped character, every other unit
\* still produces its grapheme output; the failure does not abort the batch.
C9_FailureIsolation ==
    (pc \in {"done", "raised"} /\ ~is_ipa /\ Profile(script).cls = "Transliterator")
    => \A i \in 1..Len(units) :
          UnitOutcome(Profile(script), units[i]).ok =>
              /\ result # <<>>
              /\ i <= Len(joined)
              /\ joined[i] = UnitOutcome(Profile(script), units[i]).value

RECURSIVE SplitNL(_)
\* str.split("\n")
SplitNL(s) ==
    IF \A i \in 1..Len(s) : s[i] # "NL" THEN <<s>>
    ELSE LET n == CHOOSE i \in 1..Len(s) :
                     s[i] = "NL" /\ \A j \in 1..(i - 1) : s[j] # "NL"
         IN  <<SubSeq(s, 1, n - 1)>> \o SplitNL(SubSeq(s, n + 1, Len(s)))

\* the i-th input unit: a line of the IPA text, or the provider's
\* transcription of the i-th line
InputUnit(i) == IF is_ipa THEN lines[i] ELSE Strip(lines[i])

\* C11: for n units that all convert, transliterate yields exactly n grapheme
\* strings, the i-th being the transformation of the i-th unit, through the
\* provider and with is_ipa alike.
C11_OutputSequencing ==
    (/\ pc \in {"done", "raised"}
     /\ Profile(script).cls # "MedeivalRunes"
     /\ \A i \in 1..Len(lines) : UnitOutcome(Profile(script), InputUnit(i)).ok)
    => /\ pc = "done"
       /\ SplitNL(result[1]) =
             [i \in 1..Len(lines) |->
                 UnitOutcome(Profile(script), InputUnit(i)).value]

(***************************************************************************)
(* C12  Keepable text                                                      *)
(***************************************************************************)
\* preprocess_text, then convert_text
Pipeline(p, s) == convert_text(p, preprocess_text(s))

\* C12 as stated: for every profile the pipeline returns a text of keepable
\* and whitespace characters unchanged, and does so again on the result.
C12_KeepablesAsStated ==
    Profile(script).cls # "MedeivalRunes" =>
        /\ (pc = "raised") =>
               ~(Chars(units[idx]) \subseteq Profile(script).keepable \cup Whitespace)
        /\ \A k \in 1..Len(joined) :
               Chars(units[k]) \subseteq Profile(script).keepable \cup Whitespace =>
                   /\ joined[k] = units[k]
                   /\ Pipeline(Profile(script), joined[k]) =
                          [ok |-> TRUE, value |-> joined[k]]

\* s has only keepable characters and whitespace other than line breaks
KeepableText(p, s) ==
    Chars(s) \subseteq (p.keepable \cup Whitespace) \ {"NL", "CR"}

\* C12 amended: for every profile of the Cascading strategy the pipeline
\* returns a text of keepable characters and whitespace other than line
\* breaks unchanged, and does so again on the result.
C12_Keepables ==
    ~Buffered =>
        /\ (pc = "raised") => ~KeepableText(Profile(script), units[idx])
        /\ \A k \in 1..Len(joined) :
               KeepableText(Profile(script), units[k]) => joined[k] = units[k]
        /\ \A k \in 1..Len(units) :
               KeepableText(Profile(script), units[k]) =>
                   Pipeline(Profile(script), units[k]) =
                       [ok |-> TRUE, value |-> units[k]]

\* the pipeline has returned a unit that has a keepable character and a blank
C12_Witness ==
    /\ ~Buffered
    /\ Profile(script).cls # "MedeivalRunes"
    /\ Returned
    /\ KeepableText(Profile(script), units[Len(joined)])
    /\ Chars(units[Len(joined)]) \cap (Profile(script).keepable \ Whitespace) # {}
    /\ " " \in Chars(units[Len(joined)])
    /\ joined[Len(joined)] = units[Len(joined)]

(***************************************************************************)
(* C13  Detail of the coverage error                                       *)
(***************************************************************************)
\* C13 as stated: the coverage error names the characters of the cleaned
\* string that are still in the result and are not keepable.
C13_DetailAsStated ==
    (~Buffered /\ pc = "raised" /\ error.type = "AssertionError") =>
        error.errs = {c \in Chars(text_old) :
                         c \in Chars(text) /\ c \notin Profile(script).keepable}

\* C13 amended: the coverage error names the characters of the cleaned string
\* that are still in the result, are not keepable and are not whitespace.
C13_Detail ==
    (~Buffered /\ pc = "raised" /\ error.type = "AssertionError") =>
        error.errs = {c \in Chars(text_old) :
                         /\ c \in Chars(text)
                         /\ c \notin Profile(script).keepable
                         /\ c \notin Whitespace}

\* a coverage error on a text that also kept a blank outside the keepable
\* set and a grapheme
C13_Witness ==
    /\ ~Buffered
    /\ pc = "raised"
    /\ error.type = "AssertionError"
    /\ " " \in Leftover \ Profile(script).keepable
    /\ Chars(text) \ Chars(text_old) # {}

(***************************************************************************)
(* C15  End of input in the Buffered strategy                              *)
(***************************************************************************)
\* C15: when the scan ends with a non-empty buffer, the grapheme of that
\* buffer is appended to the output before the output is returned.
C15_EndFlush ==
    (Buffered /\ Returned /\ buffer # <<>>) =>
        /\ out # <<>>
        /\ <<out[Len(out)]>> = Get(Profile(script).ipa, buffer)

(***************************************************************************)
(* C16  Order of the cascading replacements                                *)
(***************************************************************************)
\* a is a proper substring of b
ProperSub(a, b) ==
    /\ a # b
    /\ \E i \in 1..(Len(b) - Len(a) + 1) : SubSeq(b, i, i + Len(a) - 1) = a

\* the keys whose replacement is still to come
Pending == {todo[i] : i \in 1..Len(todo)}

\* C16: once the replacement of a key has been applied, the replacement of
\* every key of the table that properly contains it has been applied too, in
\* whichever of the two buckets the two keys are.
C16_LongerFirst ==
    (~Buffered /\ pc = "replace") =>
        \A i, j \in 1..Len(Profile(script).ipa) :
            LET k  == Profile(script).ipa[i][1]
                k2 == Profile(script).ipa[j][1]
            IN  (ProperSub(k2, k) /\ k2 \notin Pending) => k \notin Pending

\* a key has been replaced in the text while a key it contains, which comes
\* before it in the table, is still to come
C16_Witness ==
    /\ ~Buffered
    /\ pc = "replace"
    /\ text # text_old
    /\ \E i, j \in 1..Len(Profile(script).ipa) :
           /\ j < i
           /\ ProperSub(Profile(script).ipa[j][1], Profile(script).ipa[i][1])
           /\ Profile(script).ipa[i][1] \notin Pending
           /\ Profile(script).ipa[j][1] \in Pending
           /\ Chars(Profile(script).ipa[i][2]) \subseteq Chars(text)

(***************************************************************************)
(* C20  The buffer of the Buffered strategy                                *)
(***************************************************************************)
\* C20: at the end of every iteration of the scan the buffer is empty or is a
\* key of the table, so it is never longer than MAXLEN and the scan never
\* raises the ValueError of line 193.
C20_BufferInvariant ==
    /\ (Buffered /\ pc = "scan") =>
           /\ buffer = <<>> \/ HasKey(Profile(script).ipa, buffer)
           /\ Len(buffer) <= MAXLEN(Profile(script).ipa)
    /\ error.type # "ValueError"

\* the scan goes on after an iteration that emitted a grapheme, and after one
\* that filled the buffer with a key of the greatest length
C20_Witness ==
    /\ Buffered
    /\ pc = "scan"
    /\ pos > 1
    /\ \/ Len(buffer) = MAXLEN(Profile(script).ipa)
       \/ buffer = <<>> /\ out # <<>> /\ pos <= Len(text)

(***************************************************************************)
(* C19  Artifacts removed by the Normalizer                                *)
(***************************************************************************)
\* the two stress marks, the syllabic mark and the line-break characters
Artifacts == {"STRESS1", "STRESS2", "SYLL", "NL", "CR"}

\* s without its artifacts, the IPA g written as the plain g, in order
Plain(s) ==
    LET kept == SelectSeq(s, LAMBDA c : c \notin Artifacts)
    IN  [i \in 1..Len(kept) |-> IF kept[i] = "IPAG" THEN "g" ELSE kept[i]]

InCleanup == pc = "clean"
InSegmenter == pc \in {"replace", "scan"}

\* a step in which the Normalizer hands its output to the Cleanup Rewriter
FromNormalizer ==
    /\ pc = "map"
    /\ pc' = "clean"
    /\ text' = preprocess_text(units[idx])

\* a step in which the raw text, lower-cased, enters the Cleanup Rewriter
FromRawText ==
    /\ pc = "transliterate"
    /\ pc' = "clean"
    /\ Profile(script).cls = "MedeivalRunes"
    /\ text' = Lower(Join(lines, <<"NL">>))

\* what every step does after the entry of the Cleanup Rewriter: the rewriter
\* runs to its end, then the one Segmenter of the script, then the unit's
\* string is produced and the next unit is taken
AfterEntry ==
    /\ InCleanup => pc' = "clean" \/ (todo = <<>> /\ InSegmenter')
    /\ (~InSegmenter /\ InSegmenter') =>
           /\ InCleanup
           /\ (pc' = "scan") <=> Buffered
    /\ InSegmenter => pc' \in {pc, "map", "raised"}
    /\ joined' # joined =>
           /\ InSegmenter
           /\ Len(joined') = Len(joined) + 1
           /\ idx' = idx + 1

\* C18 as stated: for every script each unit enters the Cleanup Rewriter from
\* the Normalizer, and the stages follow in order, none skipped or repeated.
C18_StagesAsStated ==
    [][/\ (~InCleanup /\ InCleanup') => FromNormalizer
       /\ AfterEntry]_vars

\* C18 amended: the same, except that for medeival_runes the raw text,
\* lower-cased, enters the Cleanup Rewriter without passing the Normalizer.
C18_Stages ==
    [][/\ (~InCleanup /\ InCleanup') =>
              IF Profile(script).cls = "MedeivalRunes"
              THEN FromRawText ELSE FromNormalizer
       /\ AfterEntry]_vars

\* two units of a script other than medeival_runes went through the stages,
\* the last one changed on its way to the Segmenter and by the Segmenter
C18_Witness ==
    /\ pc = "done"
    /\ ~Buffered
    /\ Profile(script).cls # "MedeivalRunes"
    /\ Len(joined) >= 2
    /\ text_old # units[Len(units)]
    /\ text # text_old

(***************************************************************************)
(* The older script src/transliterator.py: clean_text, which is both the   *)
(* Normalizer and the Cleanup Rewriter of that script.                     *)
(***************************************************************************)
\* lines 362-371: every pattern ends with a line feed
LegacyPunctuationRules == <<
    << <<"NL", " ", "d", "STRESS1", "Q", "t", "NL">>, <<".">> >>,
    << <<"NL", " ", "p", "STRESS1", "i", "@", "R", "I", "@", "d", "NL">>,
       <<".">> >>,
    << <<"NL", " ", "k", "STRESS1", "A", "LEN", "m", "@", "NL">>, <<",">> >>,
    << <<"NL", " ", "k", "STRESS1", "o", "U", "l", "@", "n", "NL">>, <<":">> >>,
    << <<"NL", " ", "s", "STRESS2", "E", "m", "I", "k", "STRESS1", "@", "U",
         "l", "@", "n", "NL">>, <<";">> >>,
    << <<"NL", " ", "s", "STRESS2", "E", "m", "I", "k", "STRESS1", "o", "U",
         "l", "@", "n", "NL">>, <<";">> >>,
    << <<"NL", " ", "k", "w", "STRESS1", "E", "s", "t", "S", "@", "n", "NL">>,
       <<"?">> >>,
    << <<"NL", " ", "STRESS2", "E", "k", "s", "k", "l", "@", "m", "STRESS1",
         "e", "I", "S", "@", "n", "NL">>, <<"!">> >>,
    << <<"NL", " ", "k", "w", "STRESS1", "o", "U", "t", "NL">>, <<"QUOTE">> >>,
    << <<"NL", " ", "k", "w", "STRESS1", "o", "U", "t", "s", "NL">>,
       <<"DQUOTE">> >> >>

\* lines 373-376
LegacySymbolRules == <<
    << <<"STRESS2">>, <<>> >>,
    << <<"STRESS1">>, <<>> >>,
    << <<"SYLL">>, <<>> >>,
    << <<"IPAG">>, <<"g">> >> >>

\* AVESTAN_CLEANER of the older script, the entries over the model's
\* alphabet in the order of the table (lines 48, 50, 58, 59)
LEGACY_AVESTAN_CLEANER == <<
    << <<"R">>, <<"r">> >>,
    << <<"A">>, <<"a">> >>,
    << <<"n", "SYLL">>, <<"n">> >>,
    << <<"GLOT">>, <<>> >> >>

\* the pieces of the transcriptions given to clean_text
LegacyPieces ==
    {<<c>> : c \in {"R", "A", "n", "SYLL", "GLOT", "NL"}}
    \cup {<<"NL", " ", "d", "STRESS1", "Q", "t", "NL">>}

LegacyTexts == {Flatten(ps) : ps \in Strings(LegacyPieces, MaxPieces)}

\* main() of the older script calls clean_text(i, CLEANERS["avestan"])
InitLegacy ==
    /\ script = "avestan"
    /\ is_ipa \in BOOLEAN
    /\ \E t \in LegacyTexts : lines = <<t>> /\ units = <<t>>
    /\ pc = "clean_text"
    /\ idx = 1
    /\ text = <<>>
    /\ text_old = <<>>
    /\ todo = <<>>
    /\ out = <<>>
    /\ buffer = <<>>
    /\ pos = 0
    /\ joined = <<>>
    /\ result = <<>>
    /\ error = NoError
    /\ RoomIdle

\* clean_text lines 362-376; "for i in cleandict" then visits the keys in
\* the order of the table
LegacyNormalize ==
    /\ pc = "clean_text"
    /\ text' = ApplyRules(ApplyRules(units[idx], LegacyPunctuationRules),
                          LegacySymbolRules)
    /\ todo' = Keys(LEGACY_AVESTAN_CLEANER)
    /\ pc' = "cleandict"
    /\ UNCHANGED <<script, is_ipa, lines, idx, units, text_old, out, buffer,
                   pos, joined, result, error>>
    /\ UNCHANGED room

\* one iteration of the loop of line 378
LegacyCleanStep ==
    /\ pc = "cleandict"
    /\ todo # <<>>
    /\ text' = Replace(text, Head(todo), Get(LEGACY_AVESTAN_CLEANER, Head(todo)))
    /\ todo' = Tail(todo)
    /\ UNCHANGED <<script, is_ipa, lines, pc, idx, units, text_old, out,
                   buffer, pos, joined, result, error>>
    /\ UNCHANGED room

\* lines 380-382
LegacyReturn ==
    /\ pc = "cleandict"
    /\ todo = <<>>
    /\ text' = Replace(text, <<"NL">>, <<>>)
    /\ pc' = "cleaned"
    /\ UNCHANGED <<script, is_ipa, lines, idx, units, text_old, todo, out,
                   buffer, pos, joined, result, error>>
    /\ UNCHANGED room

NextLegacy == LegacyNormalize \/ LegacyCleanStep \/ LegacyReturn

SpecLegacy == InitLegacy /\ [][NextLegacy]_vars

(***************************************************************************)
(* C17  Order of the Cleanup Rewriter                                      *)
(***************************************************************************)
\* C17: while the Cleanup Rewriter is at work on a unit, the keys still to be
\* replaced come in descending order of length, the key being replaced first:
\* a longer key is replaced before a shorter one.
C17_CleanupOrder ==
    (pc \in {"clean", "cleandict"}) =>
        \A i, j \in 1..Len(todo) : i < j => Len(todo[i]) >= Len(todo[j])

(***************************************************************************)
(* Transliterator.convert_text on its own, for the registered Cascading    *)
(* tables and for a table given by a caller.                               *)
(***************************************************************************)
CascadeScripts == {"avestan", "elder_futhark", "medeival_runes", "respelling"}

\* the state in which transliterate(text, is_ipa=True) is called on one line
InitCascade ==
    /\ script \in CascadeScripts
    /\ is_ipa = TRUE
    /\ \E t \in Strings(Alphabet(script), MaxLen) : lines = <<t>> /\ units = <<t>>
    /\ pc = "map"
    /\ idx = 1
    /\ text = <<>>
    /\ text_old = <<>>
    /\ todo = <<>>
    /\ out = <<>>
    /\ buffer = <<>>
    /\ pos = 0
    /\ joined = <<>>
    /\ result = <<>>
    /\ error = NoError
    /\ RoomIdle

NextCascade ==
    \/ Preprocess
    \/ CleanStep
    \/ SortKeys
    \/ ReplaceStep
    \/ CheckCoverage
    \/ JoinResult

SpecCascade == InitCascade /\ [][NextCascade]_vars

(***************************************************************************)
(* C21  Emitted graphemes are final                                        *)
(***************************************************************************)
RECURSIVE SegOutputs(_, _)
\* what the segmentations of s give: each segment is a key, written as its
\* grapheme, or one character, left as it is
SegOutputs(ipa, s) ==
    IF s = <<>> THEN {<<>>}
    ELSE {<<Head(s)>> \o r : r \in SegOutputs(ipa, Tail(s))}
         \cup UNION {{Get(ipa, SubSeq(s, 1, n)) \o r :
                         r \in SegOutputs(ipa, SubSeq(s, n + 1, Len(s)))} :
                     n \in {m \in 1..Len(s) : HasKey(ipa, SubSeq(s, 1, m))}}

\* the Cascading segmenter is at work on a cleaned string, or has returned
Cascading == ~Buffered /\ pc \in {"replace", "map", "done"} /\ text_old # <<>>

\* C21 as stated: for any profile the text of the Cascading segmenter is, at
\* every replacement and at the return, the concatenation of graphemes and
\* unchanged characters for some segmentation of the cleaned input: nothing
\* written as a grapheme is rewritten by a later key.
C21_FinalAsStated ==
    Cascading => text \in SegOutputs(Profile(script).ipa, text_old)

\* no character of a grapheme occurs in a key, and a key with an empty
\* grapheme is one character other than the length marker
GraphemesApart(ipa) ==
    /\ \A i, j \in 1..Len(ipa) : Chars(ipa[i][2]) \cap Chars(ipa[j][1]) = {}
    /\ \A i \in 1..Len(ipa) :
           ipa[i][2] = <<>> => Len(ipa[i][1]) = 1 /\ ipa[i][1] # <<"LEN">>

\* C21 amended: the same for every profile whose graphemes are apart from
\* its keys, as they are in every registered table.
C21_Final ==
    (Cascading /\ GraphemesApart(Profile(script).ipa)) =>
        text \in SegOutputs(Profile(script).ipa, text_old)

\* a registered table has returned a string in which a key of two characters
\* was written as its grapheme
C21_Witness ==
    /\ Cascading
    /\ GraphemesApart(Profile(script).ipa)
    /\ pc = "done"
    /\ \E i \in 1..Len(Profile(script).ipa) :
           /\ Len(Profile(script).ipa[i][1]) = 2
           /\ Chars(Profile(script).ipa[i][2]) \subseteq Chars(text)
           /\ Len(text) < Len(text_old)

(***************************************************************************)
(* C22  The Normalizer is idempotent                                       *)
(***************************************************************************)
\* C22: preprocess_text applied to the output of preprocess_text gives that
\* output back: a second pass finds nothing to rewrite.
C22_Idempotent ==
    Normalized => preprocess_text(text) = text

\* the first pass rewrote a punctuation phrase next to a character it kept
C22_Witness ==
    /\ Normalized
    /\ \E i \in 1..Len(PunctuationRules) :
           /\ CountOcc(units[1], PunctuationRules[i][1]) > 0
           /\ Chars(PunctuationRules[i][2]) \subseteq Chars(text)
    /\ Len(text) >= 2
    /\ Chars(text) \cap {"s", "a", "g", " "} # {}

(***************************************************************************)
(* C23  The table of main()                                                *)
(***************************************************************************)
\* list[:-1]
DropLast(l) == SubSeq(l, 1, Len(l) - 1)

\* lines 294-298: the rows zip(orig.split('\n')[:-1],
\* text_final.split('\n')[:-1]) of the table, each cell stripped
Rows(orig, text_final) ==
    LET left  == DropLast(orig)
        right == DropLast(SplitNL(text_final))
        n     == IF Len(left) <= Len(right) THEN Len(left) ELSE Len(right)
    IN  [i \in 1..n |-> <<Strip(left[i]), Strip(right[i])>>]

\* the input is n lines, each ended by a line feed
Terminated == Len(lines) >= 2 /\ lines[Len(lines)] = <<>>

\* C23: for an input of n lines that main() has transliterated, the table has
\* n rows, the i-th with the i-th original line and its transliteration,
\* through the provider and with --ipa alike.
C23_Rows ==
    (pc = "done" /\ Terminated /\ Profile(script).cls # "MedeivalRunes") =>
        Rows(lines, result[1]) =
            [i \in 1..(Len(lines) - 1) |->
                <<Strip(lines[i]),
                  Strip(UnitOutcome(Profile(script), InputUnit(i)).value)>>]

(***************************************************************************)
(* pull_room of src/unnamed/part_000: the loop of lines 238-252 over the   *)
(* message events sorted by origin_server_ts.  An event is its place in    *)
(* EVENTS; its body matches COMMANDS["begin"], or COMMANDS["end"], or      *)
(* neither ("text").  A Conversation is its place in conversations, which  *)
(* holds the events list of every Conversation made so far.                *)
(***************************************************************************)
Bodies == {"begin", "end", "text"}

\* the transliterator is not running
TransliteratorIdle ==
    /\ script = "avestan"
    /\ is_ipa = FALSE
    /\ lines = <<>>
    /\ pc = "idle"
    /\ idx = 0
    /\ units = <<>>
    /\ text = <<>>
    /\ text_old = <<>>
    /\ todo = <<>>
    /\ out = <<>>
    /\ buffer = <<>>
    /\ pos = 0
    /\ joined = <<>>
    /\ result = <<>>
    /\ error = NoError

\* lines 236-240: EVENTS sorted, scripts = [], curscript = Conversation(),
\* gobble = False
InitRoom ==
    /\ TransliteratorIdle
    /\ EVENTS \in Strings(Bodies, MaxEvents)
    /\ scripts = <<>>
    /\ conversations = << <<>> >>
    /\ curscript = 1
    /\ gobble = FALSE
    /\ event = 1
    /\ room_pc = "loop"

\* lines 242-245: a begin command
BeginCommand ==
    /\ room_pc = "loop"
    /\ event <= Len(EVENTS)
    /\ EVENTS[event] = "begin"
    /\ conversations' = Append(conversations, <<>>)
    /\ curscript' = Len(conversations) + 1
    /\ gobble' = TRUE
    /\ event' = event + 1
    /\ UNCHANGED <<EVENTS, scripts, room_pc>>
    /\ UNCHANGED <<script, is_ipa, lines, pc, idx, units, text, text_old,
                   todo, out, buffer, pos, joined, result, error>>

\* lines 246-250: an end command; gobble is False when line 249 is reached
EndCommand ==
    /\ room_pc = "loop"
    /\ event <= Len(EVENTS)
    /\ EVENTS[event] = "end"
    /\ scripts' = Append(scripts, curscript)
    /\ gobble' = FALSE
    /\ event' = event + 1
    /\ UNCHANGED <<EVENTS, curscript, conversations, room_pc>>
    /\ UNCHANGED <<script, is_ipa, lines, pc, idx, units, text, text_old,
                   todo, out, buffer, pos, joined, result, error>>

\* lines 249-250: any other event
OtherEvent ==
    /\ room_pc = "loop"
    /\ event <= Len(EVENTS)
    /\ EVENTS[event] = "text"
    /\ conversations' =
           IF gobble
           THEN [conversations EXCEPT ![curscript] = Append(@, event)]
           ELSE conversations
    /\ event' = event + 1
    /\ UNCHANGED <<EVENTS, scripts, curscript, gobble, room_pc>>
    /\ UNCHANGED <<script, is_ipa, lines, pc, idx, units, text, text_old,
                   todo, out, buffer, pos, joined, result, error>>

\* line 252
ReturnScripts ==
    /\ room_pc = "loop"
    /\ event > Len(EVENTS)
    /\ room_pc' = "returned"
    /\ UNCHANGED <<EVENTS, scripts, curscript, gobble, conversations, event>>
    /\ UNCHANGED <<script, is_ipa, lines, pc, idx, units, text, text_old,
                   todo, out, buffer, pos, joined, result, error>>

NextRoom == BeginCommand \/ EndCommand \/ OtherEvent \/ ReturnScripts

SpecRoom == InitRoom /\ [][NextRoom]_vars

(***************************************************************************)
(* C24  The scan of the chat log                                           *)
(***************************************************************************)
\* event k lies after a begin command with no end command in between
InsideConversation(k) ==
    \E b \in 1..(k - 1) :
        /\ EVENTS[b] = "begin"
        /\ \A m \in (b + 1)..(k - 1) : EVENTS[m] # "end"

\* the begin commands that are closed: the next command after them is an end
ClosedBegins ==
    {b \in 1..Len(EVENTS) :
        /\ EVENTS[b] = "begin"
        /\ \E e \in (b + 1)..Len(EVENTS) :
               /\ EVENTS[e] = "end"
               /\ \A m \in (b + 1)..(e - 1) : EVENTS[m] = "text"}

\* C24: an event is in a conversation only if it lies after a begin command
\* and before the next end command; no begin or end command is in one; and
\* the returned list holds each conversation at most once, one per begin
\* command that an end command closes (an end command with no open begin
\* adds nothing).
C24_Scan ==
    /\ \A c \in 1..Len(conversations) : \A n \in 1..Len(conversations[c]) :
           /\ EVENTS[conversations[c][n]] = "text"
           /\ InsideConversation(conversations[c][n])
    /\ room_pc = "returned" =>
           /\ \A a, b \in 1..Len(scripts) : a # b => scripts[a] # scripts[b]
           /\ Len(scripts) = Cardinality(ClosedBegins)

====
